---- MODULE Spec2Model ----
(***************************************************************************)
(* Conversation repository (backend/app/repositories/conversation.py):     *)
(* a single DynamoDB table holding conversation items and bot-usage items, *)
(* with the six repository functions modelled as operators over the table  *)
(* and one action per function.                                            *)
(*                                                                         *)
(* Strings that are composed into keys (user ids, conversation ids, bot    *)
(* ids, sort keys) are sequences of one-character strings, so that         *)
(* concatenation, begins_with and the byte order of sort keys are the      *)
(* real ones.  Other strings (titles, roles, bodies) are opaque.           *)
(* An Optional[str] is <<>> for None and <<s>> for the string s.           *)
(*                                                                         *)
(* The store: a Query is always answered and reads the table as it is      *)
(* (SKIndex is read consistently with the base table); a write request     *)
(* either is applied or fails with ClientError and changes nothing.  The   *)
(* page size of a Query and whether the store reports LastEvaluatedKey on  *)
(* a page that happens to end the result are choices of the store.         *)
(* In Spec, SpecList and SpecKeys repository calls run one at a time: a     *)
(* call is an action, followed by Return, which forgets the call record.   *)
(* In SpecConc two calls run at the same time, one store request a step.   *)
(***************************************************************************)
EXTENDS Integers, Sequences, FiniteSets, TLC

VARIABLES table, clock, last

vars == <<table, clock, last>>

(***************************************************************************)
(* Bounds of the model.                                                    *)
(***************************************************************************)
MaxClock == 1
MaxPageSize == 2
NumListConvs == 6
FracBits == 3

(***************************************************************************)
(* Python values.                                                          *)
(***************************************************************************)
None == <<>>

Some(s) == <<s>>

\* `if x:` on an Optional[str]: None and "" are falsy.
Truthy(o) == o # None /\ o[1] # <<>>

RECURSIVE Pow(_, _)
Pow(b, n) == IF n = 0 THEN 1 ELSE b * Pow(b, n - 1)

\* A binary float m / 2^e, kept in lowest terms.
RECURSIVE Float(_, _)
Float(m, e) == IF e > 0 /\ m % 2 = 0 THEN Float(m \div 2, e - 1) ELSE [m |-> m, e |-> e]

\* Decimal(x) of a float x: the exact decimal expansion, coef / 10^scale.
decimal(x) == [coef |-> x.m * Pow(5, x.e), scale |-> x.e]

\* float(d) of a Decimal d: the nearest float with FracBits fractional bits.
float(d) ==
    LET den == Pow(10, d.scale)
        num == d.coef * Pow(2, FracBits)
    IN  Float((2 * num + den) \div (2 * den), FracBits)

DecLeq(a, b) == a.coef * Pow(10, b.scale) <= b.coef * Pow(10, a.scale)

\* datetime.now().timestamp(): the clock counts half seconds.
timestamp(c) == Float(c, 1)

(***************************************************************************)
(* Key codec (app.repositories.common).                                    *)
(***************************************************************************)
ConvMarker == <<"#", "C", "O", "N", "V", "#">>

BotMarker == <<"#", "B", "O", "T", "#">>

BeginsWith(s, p) == Len(p) <= Len(s) /\ SubSeq(s, 1, Len(p)) = p

compose_conv_id(user_id, conversation_id) == user_id \o ConvMarker \o conversation_id

compose_bot_id(user_id, bot_id) == user_id \o BotMarker \o bot_id

\* Strips everything up to and including the first "#CONV#" marker.
decompose_conv_id(sk) ==
    LET starts == {i \in 1..Len(sk) : BeginsWith(SubSeq(sk, i, Len(sk)), ConvMarker)}
    IN  IF starts = {}
        THEN [ok |-> FALSE, id |-> <<>>]
        ELSE LET i == CHOOSE j \in starts : \A k \in starts : j <= k
             IN  [ok |-> TRUE, id |-> SubSeq(sk, i + Len(ConvMarker), Len(sk))]

(***************************************************************************)
(* Byte order of strings, for the sort key order of a partition.           *)
(***************************************************************************)
CharCode(ch) ==
    CASE ch = "#" -> 35
      [] ch = "0" -> 48 [] ch = "1" -> 49 [] ch = "2" -> 50 [] ch = "3" -> 51
      [] ch = "4" -> 52 [] ch = "5" -> 53 [] ch = "6" -> 54 [] ch = "7" -> 55
      [] ch = "8" -> 56 [] ch = "9" -> 57
      [] ch = "B" -> 66 [] ch = "C" -> 67 [] ch = "N" -> 78 [] ch = "O" -> 79
      [] ch = "T" -> 84 [] ch = "V" -> 86
      [] ch = "b" -> 98 [] ch = "c" -> 99 [] ch = "u" -> 117

RECURSIVE StrLess(_, _)
StrLess(a, b) ==
    IF b = <<>> THEN FALSE
    ELSE IF a = <<>> THEN TRUE
    ELSE IF a[1] # b[1] THEN CharCode(a[1]) < CharCode(b[1])
    ELSE StrLess(Tail(a), Tail(b))

(***************************************************************************)
(* JSON: a document is a tagged tree; an object keeps its members in       *)
(* order, as json.dumps and json.loads do with dicts.                      *)
(***************************************************************************)
JStr(s) == <<"str", s>>

JNull == <<"null">>

JNum(d) == <<"num", d.coef, d.scale>>

JArr(items) == <<"arr", items>>

JObj(members) == <<"obj", members>>

\* d[key] of a decoded JSON object (the last member of that name).
Member(obj, key) ==
    LET hits == {i \in DOMAIN obj[2] : obj[2][i][1] = key}
    IN  obj[2][CHOOSE i \in hits : \A j \in hits : j <= i][2]

\* MessageModel.model_dump() serialized by json.dumps.
dump_message(v) ==
    JObj(<< <<"role", JStr(v.role)>>,
            <<"content", JObj(<< <<"content_type", JStr(v.content.content_type)>>,
                                 <<"body", JStr(v.content.body)>> >>)>>,
            <<"model", JStr(v.model)>>,
            <<"children", JArr([i \in DOMAIN v.children |-> JStr(v.children[i])])>>,
            <<"parent", IF v.parent = None THEN JNull ELSE JStr(v.parent[1])>>,
            <<"create_time", JNum(decimal(v.create_time))>> >>)

\* json.dumps({k: v.model_dump() for k, v in message_map.items()})
json_dumps(message_map) ==
    JObj([i \in DOMAIN message_map |->
            <<message_map[i][1], dump_message(message_map[i][2])>>])

\* MessageModel(...) built from one value of json.loads(item["MessageMap"]).
load_message(v) ==
    [role |-> Member(v, "role")[2],
     content |-> [content_type |-> Member(Member(v, "content"), "content_type")[2],
                  body |-> Member(Member(v, "content"), "body")[2]],
     model |-> Member(v, "model")[2],
     children |-> [i \in DOMAIN Member(v, "children")[2] |-> Member(v, "children")[2][i][2]],
     parent |-> IF Member(v, "parent") = JNull THEN None ELSE Some(Member(v, "parent")[2]),
     create_time |-> float([coef |-> Member(v, "create_time")[2],
                            scale |-> Member(v, "create_time")[3]])]

\* json.loads(item["MessageMap"]).popitem()[1]["model"]: the last member.
popitem_model(doc) == Member(doc[2][Len(doc[2])][2], "model")[2]

(***************************************************************************)
(* The table: a set of items, each a function from attribute names to      *)
(* values, at most one per primary key (PK, SK).                           *)
(***************************************************************************)
KeyOf(item) == <<item.PK, item.SK>>

Has(item, attrs) == attrs \subseteq DOMAIN item

\* A put that keeps the CreateTime of the item it replaces.
PutKeepingCreateTime(tbl, item) ==
    {x \in tbl : KeyOf(x) # KeyOf(item)}
    \cup {IF \E x \in tbl : KeyOf(x) = KeyOf(item) /\ Has(x, {"CreateTime"})
          THEN [item EXCEPT !.CreateTime =
                    (CHOOSE x \in tbl : KeyOf(x) = KeyOf(item)).CreateTime]
          ELSE item}

put_item(tbl, item) == {x \in tbl : KeyOf(x) # KeyOf(item)} \cup {item}

\* A write that replaces the whole item by the key and the one attribute.
ReplaceItem(tbl, key, attr, val) ==
    {x \in tbl : KeyOf(x) # key} \cup {(attr :> val) @@ [PK |-> key[1], SK |-> key[2]]}

\* UpdateItem with "set attr = val": an upsert, as DynamoDB's UpdateItem is.
update_item(tbl, key, attr, val) ==
    LET old == {x \in tbl : KeyOf(x) = key}
        base == IF old = {} THEN [PK |-> key[1], SK |-> key[2]] ELSE CHOOSE x \in old : TRUE
    IN  (tbl \ old) \cup {(attr :> val) @@ base}

\* A delete that matches on the partition key alone.
DeletePartition(tbl, key) == {x \in tbl : x.PK # key[1]}

delete_item(tbl, key) == {x \in tbl : KeyOf(x) # key}

ApplyWrite(tbl, w) ==
    IF w.kind = "Put" THEN put_item(tbl, w.item) ELSE update_item(tbl, w.key, w.attr, w.val)

RECURSIVE ApplyWrites(_, _)
ApplyWrites(tbl, ws) ==
    IF ws = <<>> THEN tbl ELSE ApplyWrites(ApplyWrite(tbl, Head(ws)), Tail(ws))

\* The non-transactional variant: writes before the failing one stay applied.
ApplyUntilFailure(tbl, ws, failAt) ==
    IF failAt = 0
    THEN [kind |-> "ok", table |-> ApplyWrites(tbl, ws)]
    ELSE [kind |-> "WriteFailedError", table |-> ApplyWrites(tbl, SubSeq(ws, 1, failAt - 1))]

\* client.transact_write_items: all writes or none; failAt is the
\* sub-operation the store fails (0: none).
transact_write_items(tbl, ws, failAt) ==
    IF failAt = 0
    THEN [kind |-> "ok", table |-> ApplyWrites(tbl, ws)]
    ELSE [kind |-> "WriteFailedError", table |-> tbl]

(***************************************************************************)
(* Queries.  A partition query returns the matching items in descending    *)
(* sort key order, one page per request.  The store cuts a page after      *)
(* store.pageSize items (its response-size limit); when the data ends      *)
(* exactly at the cut it may or may not return a LastEvaluatedKey          *)
(* (store.lekAtEnd).  Query requests are always answered.                  *)
(***************************************************************************)
AllAttributes ==
    {"PK", "SK", "Title", "CreateTime", "MessageMap", "LastMessageId", "BotId", "LastBotUsed"}

Project(item, attrs) == [a \in (DOMAIN item) \cap attrs |-> item[a]]

\* The items by sort key, the least first (ScanIndexForward left at its default).
SortAscending(items) ==
    [i \in 1..Cardinality(items) |->
        CHOOSE x \in items : Cardinality({y \in items : StrLess(y.SK, x.SK)}) = i - 1]

\* ScanIndexForward=False: the items by sort key, the greatest first.
SortDescending(items) ==
    [i \in 1..Cardinality(items) |->
        CHOOSE x \in items : Cardinality({y \in items : StrLess(x.SK, y.SK)}) = i - 1]

\* The first page of the sorted result.
Page(sorted, attrs, store) ==
    [Items |-> [i \in 1..(IF Len(sorted) < store.pageSize THEN Len(sorted) ELSE store.pageSize)
                   |-> Project(sorted[i], attrs)],
     LastEvaluatedKey |->
        IF Len(sorted) > store.pageSize \/ (Len(sorted) = store.pageSize /\ store.lekAtEnd)
        THEN Some([PK |-> sorted[store.pageSize].PK, SK |-> sorted[store.pageSize].SK])
        ELSE None]

\* table.query(KeyConditionExpression=Key("PK").eq(pk) & Key("SK").begins_with(prefix),
\*             ScanIndexForward=False [, ProjectionExpression, ExclusiveStartKey])
query(tbl, pk, prefix, attrs, start, store) ==
    CHOOSE response \in
        {Page(sorted, attrs, store) :
            sorted \in {SortDescending({x \in tbl : /\ x.PK = pk
                                                    /\ BeginsWith(x.SK, prefix)
                                                    /\ (start = None
                                                        \/ StrLess(x.SK, start[1].SK))})}}
        : TRUE

\* table.query(IndexName="SKIndex", KeyConditionExpression=Key("SK").eq(sk))
query_index(tbl, sk) == {x \in tbl : x.SK = sk}

(***************************************************************************)
(* The repository functions.  Each is the set of outcomes the call can     *)
(* have: its exception or "ok", its return value, the table it leaves, the *)
(* store requests it issued.                                               *)
(***************************************************************************)

(***************************************************************************)
(* store_conversation                                                      *)
(***************************************************************************)
\* An item whose creation time lost its fraction.
TruncatedConversationItem(user_id, conversation) ==
    [PK |-> user_id,
     SK |-> compose_conv_id(user_id, conversation.id),
     Title |-> conversation.title,
     CreateTime |->
        decimal(Float(conversation.create_time.m \div Pow(2, conversation.create_time.e), 0)),
     MessageMap |-> json_dumps(conversation.message_map),
     LastMessageId |-> conversation.last_message_id,
     BotId |-> conversation.bot_id]

ConversationItem(user_id, conversation) ==
    [PK |-> user_id,
     SK |-> compose_conv_id(user_id, conversation.id),
     Title |-> conversation.title,
     CreateTime |-> decimal(conversation.create_time),
     MessageMap |-> json_dumps(conversation.message_map),
     LastMessageId |-> conversation.last_message_id,
     BotId |-> conversation.bot_id]

\* A bot-usage update that takes the conversation's creation time, not the clock.
StaleBotUsageUpdate(user_id, conversation, now) ==
    [kind |-> "Update",
     key |-> <<user_id, compose_bot_id(user_id, conversation.bot_id[1])>>,
     attr |-> "LastBotUsed",
     val |-> decimal(conversation.create_time)]

BotUsageUpdate(user_id, conversation, now) ==
    [kind |-> "Update",
     key |-> <<user_id, compose_bot_id(user_id, conversation.bot_id[1])>>,
     attr |-> "LastBotUsed",
     val |-> decimal(timestamp(now))]

\* The update appended for every bot_id that is not None, the empty one too.
TransactItemsUnlessNone(user_id, conversation, now) ==
    <<[kind |-> "Put", item |-> ConversationItem(user_id, conversation)]>>
    \o (IF conversation.bot_id # None
        THEN <<BotUsageUpdate(user_id, conversation, now)>>
        ELSE <<>>)

transact_items(user_id, conversation, now) ==
    <<[kind |-> "Put", item |-> ConversationItem(user_id, conversation)]>>
    \o (IF Truthy(conversation.bot_id)
        THEN <<BotUsageUpdate(user_id, conversation, now)>>
        ELSE <<>>)

WriteKey(w) == IF w.kind = "Put" THEN KeyOf(w.item) ELSE w.key

\* store_conversation(user_id, conversation) on table tbl at time now, when
\* the store fails sub-operation failAt (0: none).
store_conversation(tbl, user_id, conversation, now, failAt) ==
    {[kind |-> response.kind,
      table |-> response.table,
      reqs |-> <<[api |-> "TransactWriteItems",
                  keys |-> [i \in DOMAIN transact_items(user_id, conversation, now) |->
                              WriteKey(transact_items(user_id, conversation, now)[i])]]>>]
     : response \in {transact_write_items(tbl, transact_items(user_id, conversation, now),
                                          failAt)}}

(***************************************************************************)
(* find_conversation_by_user_id                                            *)
(***************************************************************************)
MAX_QUERY_COUNT == 5

\* A continuation query that also fetches what the loop reads from its page.
WideContinuationProjection == {"SK", "CreateTime", "Title", "MessageMap", "BotId"}

\* ProjectionExpression="SK, CreateTime, Title"
ContinuationProjection == {"SK", "CreateTime", "Title"}

\* The exception building one ConversationMetaModel raises, or "ok".
MetaError(item, attrs) ==
    IF ~decompose_conv_id(item.SK).ok THEN "MalformedKeyError"
    ELSE IF ~Has(item, attrs) THEN "KeyError"
    ELSE IF "MessageMap" \in attrs /\ item.MessageMap[2] = <<>> THEN "KeyError"
    ELSE "ok"

\* The exception the list comprehension over a page raises: that of the
\* first item that raises one.
PageError(items, attrs) ==
    IF \A i \in DOMAIN items : MetaError(items[i], attrs) = "ok"
    THEN "ok"
    ELSE MetaError(items[CHOOSE i \in DOMAIN items :
                            /\ MetaError(items[i], attrs) # "ok"
                            /\ \A j \in 1..(i - 1) : MetaError(items[j], attrs) = "ok"],
                   attrs)

ConversationMeta(item, model) ==
    [id |-> decompose_conv_id(item.SK).id,
     create_time |-> float(item.CreateTime),
     title |-> item.Title,
     model |-> model,
     bot_id |-> item.BotId]

FirstPageAttrs == {"SK", "CreateTime", "Title", "MessageMap", "BotId"}

NextPageAttrs == {"SK", "CreateTime", "Title", "BotId"}

Raised(kind, query_count) ==
    [kind |-> kind, ret |-> <<>>, queries |-> query_count, warned |-> FALSE]

\* The while loop: response is the last page fetched, conversations the
\* summaries so far, query_count the queries issued so far.
RECURSIVE ListLoop(_, _, _, _, _, _)
ListLoop(tbl, user_id, store, response, conversations, query_count) ==
    IF response.LastEvaluatedKey = None
    THEN {[kind |-> "ok", ret |-> conversations, queries |-> query_count, warned |-> FALSE]}
    ELSE IF response.Items = <<>>
    THEN {Raised("IndexError", query_count)}
    ELSE IF ~Has(response.Items[1], {"MessageMap"}) \/ response.Items[1].MessageMap[2] = <<>>
    THEN {Raised("KeyError", query_count)}
    ELSE UNION {
        IF PageError(next.Items, NextPageAttrs) # "ok"
        THEN {Raised(PageError(next.Items, NextPageAttrs), query_count + 1)}
        ELSE UNION {
            IF query_count + 1 > MAX_QUERY_COUNT
            THEN {[kind |-> "ok", ret |-> extended, queries |-> query_count + 1,
                   warned |-> TRUE]}
            ELSE ListLoop(tbl, user_id, store, next, extended, query_count + 1)
            : extended \in
                {conversations \o
                    [i \in DOMAIN next.Items |->
                        ConversationMeta(next.Items[i],
                                         popitem_model(response.Items[1].MessageMap))]}}
        : next \in {query(tbl, user_id, user_id \o ConvMarker, ContinuationProjection,
                          response.LastEvaluatedKey, store)}}

find_conversation_by_user_id(tbl, user_id, store) ==
    UNION {
        IF PageError(response.Items, FirstPageAttrs) # "ok"
        THEN {Raised(PageError(response.Items, FirstPageAttrs), 1)}
        ELSE UNION {
            ListLoop(tbl, user_id, store, response, conversations, 1)
            : conversations \in
                {[i \in DOMAIN response.Items |->
                    ConversationMeta(response.Items[i],
                                     popitem_model(response.Items[i].MessageMap))]}}
        : response \in {query(tbl, user_id, user_id \o ConvMarker, AllAttributes, None,
                              store)}}

(***************************************************************************)
(* find_conversation_by_id                                                 *)
(***************************************************************************)
ConversationAttrs == {"SK", "CreateTime", "Title", "MessageMap", "LastMessageId", "BotId"}

\* ConversationModel(...) built from the item found.
ConversationOf(item) ==
    [id |-> decompose_conv_id(item.SK).id,
     create_time |-> float(item.CreateTime),
     title |-> item.Title,
     message_map |-> [i \in DOMAIN item.MessageMap[2] |->
                        <<item.MessageMap[2][i][1], load_message(item.MessageMap[2][i][2])>>],
     last_message_id |-> item.LastMessageId,
     bot_id |-> item.BotId]

DecodeConversation(item) ==
    IF ~decompose_conv_id(item.SK).ok THEN [kind |-> "MalformedKeyError"]
    ELSE IF ~Has(item, ConversationAttrs) THEN [kind |-> "KeyError"]
    ELSE [kind |-> "ok", ret |-> ConversationOf(item)]

\* The outcomes of find_conversation_by_id: one for each item the index
\* query may return first.
find_conversation_by_id(tbl, user_id, conversation_id) ==
    LET items == query_index(tbl, compose_conv_id(user_id, conversation_id))
    IN  IF items = {}
        THEN {[kind |-> "RecordNotFoundError"]}
        ELSE {DecodeConversation(item) : item \in items}

(***************************************************************************)
(* delete_conversation_by_id, delete_conversation_by_user_id,              *)
(* change_conversation_title.  A write request the store fails raises      *)
(* the store's error and changes nothing.                                  *)
(***************************************************************************)
QueryReq == [api |-> "Query"]

WriteReq(api, key) == [api |-> api, keys |-> <<key>>]

\* The outcomes of delete_conversation_by_id; fail: the store fails the delete.
delete_conversation_by_id(tbl, user_id, conversation_id, fail) ==
    LET items == query_index(tbl, compose_conv_id(user_id, conversation_id))
    IN  IF items = {}
        THEN {[kind |-> "RecordNotFoundError", table |-> tbl, reqs |-> <<QueryReq>>]}
        ELSE {LET key == <<item.PK, compose_conv_id(item.PK, conversation_id)>>
              IN  [kind |-> IF fail THEN "WriteFailedError" ELSE "ok",
                   table |-> IF fail THEN tbl ELSE delete_item(tbl, key),
                   reqs |-> <<QueryReq, WriteReq("DeleteItem", key)>>]
              : item \in items}

\* change_conversation_title without the check for an empty query result.
ChangeTitleUnchecked(tbl, user_id, conversation_id, new_title, fail) ==
    {[kind |-> IF fail THEN "WriteFailedError" ELSE "ok",
      table |-> IF fail THEN tbl
                ELSE update_item(tbl, <<user_id, compose_conv_id(user_id, conversation_id)>>,
                                 "Title", new_title),
      reqs |-> <<QueryReq,
                 WriteReq("UpdateItem", <<user_id, compose_conv_id(user_id, conversation_id)>>)>>]}

\* The outcomes of change_conversation_title; fail: the store fails the update.
change_conversation_title(tbl, user_id, conversation_id, new_title, fail) ==
    LET items == query_index(tbl, compose_conv_id(user_id, conversation_id))
    IN  IF items = {}
        THEN {[kind |-> "RecordNotFoundError", table |-> tbl, reqs |-> <<QueryReq>>]}
        ELSE {LET key == <<item.PK, compose_conv_id(item.PK, conversation_id)>>
              IN  [kind |-> IF fail THEN "WriteFailedError" ELSE "ok",
                   table |-> IF fail THEN tbl ELSE update_item(tbl, key, "Title", new_title),
                   reqs |-> <<QueryReq, WriteReq("UpdateItem", key)>>]
              : item \in items}

\* A loop that notes a failed delete and goes on with the next conversation.
RECURSIVE DeleteLoopResuming(_, _, _, _, _, _)
DeleteLoopResuming(tbl, user_id, conversations, k, failAt, reqs) ==
    IF k > Len(conversations)
    THEN [kind |-> IF failAt \in 1..Len(conversations) THEN "WriteFailedError" ELSE "ok",
          table |-> tbl, reqs |-> reqs]
    ELSE DeleteLoopResuming(
            IF k = failAt THEN tbl
            ELSE delete_item(tbl, <<user_id, compose_conv_id(user_id, conversations[k].id)>>),
            user_id, conversations, k + 1, failAt,
            Append(reqs, WriteReq("DeleteItem",
                <<user_id, compose_conv_id(user_id, conversations[k].id)>>)))

\* The for loop of delete_conversation_by_user_id from summary k on; failAt
\* is the delete the store fails (0: none).
RECURSIVE DeleteLoop(_, _, _, _, _, _)
DeleteLoop(tbl, user_id, conversations, k, failAt, reqs) ==
    IF k > Len(conversations)
    THEN [kind |-> "ok", table |-> tbl, reqs |-> reqs]
    ELSE IF k = failAt
    THEN [kind |-> "WriteFailedError", table |-> tbl,
          reqs |-> Append(reqs, WriteReq("DeleteItem",
                        <<user_id, compose_conv_id(user_id, conversations[k].id)>>))]
    ELSE DeleteLoop(delete_item(tbl, <<user_id, compose_conv_id(user_id, conversations[k].id)>>),
                    user_id, conversations, k + 1, failAt,
                    Append(reqs, WriteReq("DeleteItem",
                        <<user_id, compose_conv_id(user_id, conversations[k].id)>>)))

delete_conversation_by_user_id(tbl, user_id, store, failAt) ==
    {IF found.kind # "ok"
     THEN [kind |-> found.kind, table |-> tbl, reqs |-> [i \in 1..found.queries |-> QueryReq]]
     ELSE IF found.ret = <<>>
     THEN [kind |-> "RecordNotFoundError", table |-> tbl,
           reqs |-> [i \in 1..found.queries |-> QueryReq]]
     ELSE DeleteLoop(tbl, user_id, found.ret, 1, failAt,
                     [i \in 1..found.queries |-> QueryReq])
     : found \in find_conversation_by_user_id(tbl, user_id, store)}

(***************************************************************************)
(* Inputs.                                                                 *)
(***************************************************************************)
Users == {<<"u", "1">>, <<"u", "2">>}

ConvIds == {<<"c", "1">>, <<"c", "2">>}

Bot1 == <<"b", "1">>

Titles == {"t1", "t2"}

Message(role, body, model, children, parent, create_time) ==
    [role |-> role,
     content |-> [content_type |-> "text", body |-> body],
     model |-> model,
     children |-> children,
     parent |-> parent,
     create_time |-> create_time]

\* root -> child -> grandchild
Tree3 ==
    << <<"m1", Message("user", "hi", "claude-v2", <<"m2">>, None, Float(1, 2))>>,
       <<"m2", Message("assistant", "hello", "claude-v2", <<"m3">>, Some("m1"), Float(1, 1))>>,
       <<"m3", Message("user", "bye", "claude-instant-v1", <<>>, Some("m2"), Float(3, 2))>> >>

Single ==
    << <<"m1", Message("system", "", "claude-v2", <<>>, None, Float(2, 0))>> >>

Conversation(id, title, create_time, message_map, last_message_id, bot_id) ==
    [id |-> id,
     title |-> title,
     create_time |-> create_time,
     message_map |-> message_map,
     last_message_id |-> last_message_id,
     bot_id |-> bot_id]

ConversationsOf(id) ==
    IF id = <<"c", "1">>
    THEN {Conversation(id, "t1", Float(3, 1), Tree3, "m3", None),
          Conversation(id, "t2", Float(1, 2), Single, "m1", Some(Bot1))}
    ELSE {Conversation(id, "t1", Float(1, 2), Tree3, "m2", Some(Bot1)),
          Conversation(id, "t2", Float(3, 1), Single, "m1", Some(<<>>))}

Conversations == UNION {ConversationsOf(id) : id \in ConvIds}

\* The conversations a user stores: user u2 keeps to one conversation id.
ConversationsBy(user_id) ==
    IF user_id = <<"u", "1">> THEN Conversations ELSE ConversationsOf(<<"c", "1">>)

Stores == [pageSize : 1..MaxPageSize, lekAtEnd : BOOLEAN]

(***************************************************************************)
(* The state: the table, the clock, and the call that has been made and    *)
(* not yet returned to its caller: its name, arguments, outcome, the store *)
(* requests it issued and what it logged.  Calls are made one at a time.   *)
(***************************************************************************)
NoCall == [op |-> "none", kind |-> "ok", reqs |-> <<>>, log |-> <<>>]

Idle == last.op = "none"

Init ==
    /\ table = {}
    /\ clock = 0
    /\ last = NoCall

\* Time passes between calls.
Tick ==
    /\ Idle
    /\ clock < MaxClock
    /\ clock' = clock + 1
    /\ UNCHANGED <<table, last>>

\* The caller takes the outcome of the call.
Return ==
    /\ ~Idle
    /\ last' = NoCall
    /\ UNCHANGED <<table, clock>>

\* now: the clock when line 127 reads it, not before the call started.
StoreConversation ==
    /\ Idle
    /\ \E user_id \in Users, failAt \in 0..2, now \in clock..(clock + 1) :
       \E conversation \in ConversationsBy(user_id) :
        /\ now <= MaxClock
        /\ failAt <= Len(transact_items(user_id, conversation, now))
        /\ \E r \in store_conversation(table, user_id, conversation, now, failAt) :
               /\ table' = r.table
               /\ last' = [op |-> "store_conversation", user_id |-> user_id,
                           conversation |-> conversation, started |-> clock,
                           failAt |-> failAt, kind |-> r.kind,
                           reqs |-> r.reqs, log |-> <<>>]
        /\ clock' = now

FindConversationByUserId ==
    /\ Idle
    /\ \E user_id \in Users, store \in Stores :
        \E r \in find_conversation_by_user_id(table, user_id, store) :
            /\ last' = [op |-> "find_conversation_by_user_id", user_id |-> user_id,
                        store |-> store, kind |-> r.kind, ret |-> r.ret,
                        reqs |-> [i \in 1..r.queries |-> QueryReq],
                        log |-> IF r.warned THEN <<"Query count exceeded">> ELSE <<>>]
            /\ UNCHANGED <<table, clock>>

FindConversationById ==
    /\ Idle
    /\ \E user_id \in Users, conversation_id \in ConvIds :
        \E r \in find_conversation_by_id(table, user_id, conversation_id) :
            /\ last' = [op |-> "find_conversation_by_id", user_id |-> user_id,
                        conversation_id |-> conversation_id, kind |-> r.kind,
                        reqs |-> <<QueryReq>>, log |-> <<>>]
            /\ UNCHANGED <<table, clock>>

DeleteConversationById ==
    /\ Idle
    /\ \E user_id \in Users, conversation_id \in ConvIds, fail \in BOOLEAN :
        \E r \in delete_conversation_by_id(table, user_id, conversation_id, fail) :
            /\ table' = r.table
            /\ last' = [op |-> "delete_conversation_by_id", user_id |-> user_id,
                        conversation_id |-> conversation_id, kind |-> r.kind,
                        reqs |-> r.reqs, log |-> <<>>]
            /\ UNCHANGED clock

DeleteConversationByUserId ==
    /\ Idle
    /\ \E user_id \in Users, store \in Stores :
        \E failAt \in 0..NumListConvs :
            \E r \in delete_conversation_by_user_id(table, user_id, store, failAt) :
                /\ table' = r.table
                /\ last' = [op |-> "delete_conversation_by_user_id", user_id |-> user_id,
                            store |-> store, kind |-> r.kind, reqs |-> r.reqs, log |-> <<>>]
                /\ UNCHANGED clock

ChangeConversationTitle ==
    /\ Idle
    /\ \E user_id \in Users, conversation_id \in ConvIds, new_title \in Titles,
          fail \in BOOLEAN :
        \E r \in change_conversation_title(table, user_id, conversation_id, new_title, fail) :
            /\ table' = r.table
            /\ last' = [op |-> "change_conversation_title", user_id |-> user_id,
                        conversation_id |-> conversation_id, new_title |-> new_title,
                        kind |-> r.kind, reqs |-> r.reqs, log |-> <<>>]
            /\ UNCHANGED clock

Next ==
    \/ Tick
    \/ Return
    \/ StoreConversation
    \/ FindConversationByUserId
    \/ FindConversationById
    \/ DeleteConversationById
    \/ DeleteConversationByUserId
    \/ ChangeConversationTitle

Spec == Init /\ [][Next]_vars

(***************************************************************************)
(* Listing a long partition: the table starts as any set of up to          *)
(* NumListConvs conversations stored for user u1, next to a conversation   *)
(* and a bot-usage item of u1's bot and the items of user u2; the calls    *)
(* are the two that list a partition.                                      *)
(***************************************************************************)
Digit(i) ==
    CASE i = 0 -> "0" [] i = 1 -> "1" [] i = 2 -> "2" [] i = 3 -> "3" [] i = 4 -> "4"
      [] i = 5 -> "5" [] i = 6 -> "6" [] i = 7 -> "7" [] i = 8 -> "8" [] i = 9 -> "9"

ListConversation(i) ==
    IF i % 2 = 0
    THEN Conversation(<<"c", Digit(i)>>, "t1", Float(i, 1), Tree3, "m3", None)
    ELSE Conversation(<<"c", Digit(i)>>, "t2", Float(i, 2), Single, "m1", Some(Bot1))

\* The table after store_conversation(user_id, c) for each c, at time 0.
RECURSIVE Stored(_, _, _)
Stored(tbl, user_id, convs) ==
    IF convs = {} THEN tbl
    ELSE LET c == CHOOSE x \in convs : TRUE
         IN  Stored(ApplyWrites(tbl, transact_items(user_id, c, 0)), user_id, convs \ {c})

ListInit ==
    /\ \E chosen \in SUBSET (1..NumListConvs) :
          table = Stored(Stored({}, <<"u", "2">>, {ListConversation(1), ListConversation(2)}),
                         <<"u", "1">>, {ListConversation(i) : i \in chosen})
    /\ clock = 0
    /\ last = NoCall

ListNext ==
    \/ Return
    \/ FindConversationByUserId
    \/ DeleteConversationByUserId

SpecList == ListInit /\ [][ListNext]_vars

(***************************************************************************)
(* Properties.                                                             *)
(***************************************************************************)
\* The conversation items and the bot-usage items of a table.
ConversationRecords(tbl, user_id) ==
    {x \in tbl : x.PK = user_id /\ BeginsWith(x.SK, user_id \o ConvMarker)}

ConversationRecord(tbl, user_id, conversation_id) ==
    {x \in tbl : x.PK = user_id /\ x.SK = compose_conv_id(user_id, conversation_id)}

BotUsageRecords(tbl) == {x \in tbl : BeginsWith(x.SK, x.PK \o BotMarker)}

BotUsageRecord(tbl, user_id, bot_id) ==
    {x \in tbl : x.PK = user_id /\ x.SK = compose_bot_id(user_id, bot_id)}

\* A call of op is made in this step.
Calls(op) == Idle /\ last'.op = op

Called(op) == last.op = op

NotFound == {[kind |-> "RecordNotFoundError"]}

\* Equality of two ConversationModel values, the message maps as dicts.
SameConversation(a, b) ==
    /\ a.id = b.id
    /\ a.title = b.title
    /\ a.create_time = b.create_time
    /\ a.last_message_id = b.last_message_id
    /\ a.bot_id = b.bot_id
    /\ Len(a.message_map) = Len(b.message_map)
    /\ {a.message_map[i] : i \in DOMAIN a.message_map}
         = {b.message_map[i] : i \in DOMAIN b.message_map}

\* C1: when the store fails a sub-operation of store_conversation's
\* transaction, the call raises the store's error, the table (the
\* conversation item and the bot-usage item with it) is as before the call,
\* and exactly one transaction request was issued (no retry).
C1_StoreAllOrNothing ==
    [][(Calls("store_conversation") /\ last'.failAt # 0)
        => /\ last'.kind = "WriteFailedError"
           /\ table' = table
           /\ Len(last'.reqs) = 1]_vars

\* A store with a bot whose bot-usage update failed, over an older,
\* different item of the same conversation that is still in the table.
C1_Witness ==
    /\ Called("store_conversation")
    /\ last.failAt = 2
    /\ last.kind = "WriteFailedError"
    /\ Truthy(last.conversation.bot_id)
    /\ ConversationRecord(table, last.user_id, last.conversation.id) # {}
    /\ ConversationItem(last.user_id, last.conversation) \notin table
    /\ BotUsageRecord(table, last.user_id, last.conversation.bot_id[1]) # {}

\* C2: after a successful store_conversation(u, c), find_conversation_by_id(u, c.id)
\* returns a conversation equal to c in id, title, create_time,
\* last_message_id, bot_id and in every message of its message_map.
C2_StoreFindRoundTrip ==
    (Called("store_conversation") /\ last.kind = "ok")
        => \A r \in find_conversation_by_id(table, last.user_id, last.conversation.id) :
              r.kind = "ok" /\ SameConversation(r.ret, last.conversation)

C2_Witness ==
    /\ Called("store_conversation")
    /\ last.kind = "ok"
    /\ last.conversation.message_map = Tree3
    /\ \E r \in find_conversation_by_id(table, last.user_id, last.conversation.id) :
          r.kind = "ok" /\ Len(r.ret.message_map) = 3

\* C3: after a successful store_conversation(u, c) with c.bot_id set, the
\* bot-usage item (u, u#BOT#c.bot_id) exists and its LastBotUsed is at least
\* the time at which the call started.
C3_BotUsageStamped ==
    (Called("store_conversation") /\ last.kind = "ok" /\ Truthy(last.conversation.bot_id))
        => \E x \in BotUsageRecord(table, last.user_id, last.conversation.bot_id[1]) :
              /\ Has(x, {"LastBotUsed"})
              /\ DecLeq(decimal(timestamp(last.started)), x.LastBotUsed)

\* The bot-usage item was updated, not created: another conversation of the
\* user with the same bot is stored, and time passed during the call.
C3_Witness ==
    /\ Called("store_conversation")
    /\ last.kind = "ok"
    /\ Truthy(last.conversation.bot_id)
    /\ last.started < clock
    /\ \E y \in ConversationRecords(table, last.user_id) :
          /\ y.SK # compose_conv_id(last.user_id, last.conversation.id)
          /\ y.BotId = last.conversation.bot_id
    /\ \E x \in BotUsageRecord(table, last.user_id, last.conversation.bot_id[1]) :
          x.LastBotUsed = decimal(timestamp(clock))

\* C4: the bot-usage items change only in a step that commits a
\* store_conversation(u, c) with c.bot_id set, and that step sets exactly the
\* item (u, u#BOT#c.bot_id) to the time of the call; no other call, and no
\* failed store, creates, changes or deletes a bot-usage item.
C4_BotUsageOnlyByStore ==
    [][BotUsageRecords(table') # BotUsageRecords(table)
        => /\ Calls("store_conversation")
           /\ last'.kind = "ok"
           /\ Truthy(last'.conversation.bot_id)
           /\ BotUsageRecords(table')
                = (BotUsageRecords(table)
                     \ BotUsageRecord(table, last'.user_id, last'.conversation.bot_id[1]))
                  \cup {[PK |-> last'.user_id,
                         SK |-> compose_bot_id(last'.user_id, last'.conversation.bot_id[1]),
                         LastBotUsed |-> decimal(timestamp(clock'))]}]_vars

\* A bot-usage item that outlives the user's conversations.
C4_Witness ==
    /\ Called("delete_conversation_by_user_id")
    /\ last.kind = "ok"
    /\ ConversationRecords(table, last.user_id) = {}
    /\ BotUsageRecord(table, last.user_id, Bot1) # {}

\* C5: when no conversation item (u, u#CONV#i) is stored, each of
\* find_conversation_by_id(u, i), change_conversation_title(u, i, t) and
\* delete_conversation_by_id(u, i) raises RecordNotFoundError, leaves the
\* table unchanged and issues the index query only.
C5_NotFoundChangesNothing ==
    [][(/\ \/ Calls("find_conversation_by_id")
           \/ Calls("change_conversation_title")
           \/ Calls("delete_conversation_by_id")
        /\ ConversationRecord(table, last'.user_id, last'.conversation_id) = {})
        => /\ last'.kind = "RecordNotFoundError"
           /\ table' = table
           /\ last'.reqs = <<QueryReq>>]_vars

C5_Witness ==
    /\ Called("change_conversation_title")
    /\ last.kind = "RecordNotFoundError"
    /\ ConversationRecord(table, last.user_id, last.conversation_id) = {}
    /\ ConversationRecords(table, last.user_id) # {}

\* C6: a successful change_conversation_title(u, i, t) on an existing
\* conversation makes find_conversation_by_id(u, i) return what it returned
\* before with the title t, and changes no other item of the table.
C6_RenameChangesTitleOnly ==
    [][(Calls("change_conversation_title") /\ last'.kind = "ok")
        => /\ \A before \in find_conversation_by_id(table, last'.user_id,
                                                    last'.conversation_id) :
                before.kind = "ok"
                => \A after \in find_conversation_by_id(table', last'.user_id,
                                                        last'.conversation_id) :
                      /\ after.kind = "ok"
                      /\ after.ret = [before.ret EXCEPT !.title = last'.new_title]
           /\ table' \ ConversationRecord(table', last'.user_id, last'.conversation_id)
                = table \ ConversationRecord(table, last'.user_id, last'.conversation_id)]_vars

\* The renamed conversation carries a title its message map was never
\* stored with, next to another conversation and a bot-usage item.
C6_Witness ==
    /\ Called("change_conversation_title")
    /\ last.kind = "ok"
    /\ last.new_title = "t2"
    /\ \E r \in find_conversation_by_id(table, last.user_id, last.conversation_id) :
          r.kind = "ok" /\ r.ret.title = "t2" /\ r.ret.message_map = Tree3
    /\ Cardinality(ConversationRecords(table, last.user_id)) = 2
    /\ BotUsageRecords(table) # {}

\* C7: a successful delete_conversation_by_id(u, i) removes exactly the item
\* (u, u#CONV#i); from then on find_conversation_by_id(u, i) raises
\* RecordNotFoundError, and a conversation that is not found becomes found
\* only by a store_conversation(u, c) with c.id = i that commits.
C7_DeletedUntilStored ==
    [][/\ (Calls("delete_conversation_by_id") /\ last'.kind = "ok")
            => /\ ConversationRecord(table, last'.user_id, last'.conversation_id) # {}
               /\ table' = table \ ConversationRecord(table, last'.user_id,
                                                      last'.conversation_id)
               /\ find_conversation_by_id(table', last'.user_id, last'.conversation_id)
                    = NotFound
       /\ \A u \in Users, i \in ConvIds :
            (/\ find_conversation_by_id(table, u, i) = NotFound
             /\ find_conversation_by_id(table', u, i) # NotFound)
            => /\ Calls("store_conversation")
               /\ last'.kind = "ok"
               /\ last'.user_id = u
               /\ last'.conversation.id = i]_vars

C7_Witness ==
    /\ Called("delete_conversation_by_id")
    /\ last.kind = "ok"
    /\ find_conversation_by_id(table, last.user_id, last.conversation_id) = NotFound
    /\ ConversationRecords(table, last.user_id) # {}
    /\ BotUsageRecords(table) # {}

\* C8: when the conversation items of user u fit in one page,
\* find_conversation_by_user_id(u) returns one summary for each of them, with
\* the item's conversation id, title, create_time and bot_id, and nothing
\* else, in descending order of sort key.
C8_SinglePageListing ==
    (/\ Called("find_conversation_by_user_id")
     /\ Cardinality(ConversationRecords(table, last.user_id)) <= last.store.pageSize)
        => /\ last.kind = "ok"
           /\ Len(last.ret) = Cardinality(ConversationRecords(table, last.user_id))
           /\ \A x \in ConversationRecords(table, last.user_id) :
                \E i \in DOMAIN last.ret :
                    /\ x.SK = compose_conv_id(last.user_id, last.ret[i].id)
                    /\ x.Title = last.ret[i].title
                    /\ x.CreateTime = decimal(last.ret[i].create_time)
                    /\ x.BotId = last.ret[i].bot_id
           /\ \A i, j \in DOMAIN last.ret :
                i < j => StrLess(compose_conv_id(last.user_id, last.ret[j].id),
                                 compose_conv_id(last.user_id, last.ret[i].id))

\* Two conversations in one page, next to a bot-usage item of the user and
\* the items of another user.
C8_Witness ==
    /\ Called("find_conversation_by_user_id")
    /\ last.kind = "ok"
    /\ Len(last.ret) = 2
    /\ Cardinality(ConversationRecords(table, last.user_id)) = 2
    /\ BotUsageRecord(table, last.user_id, Bot1) # {}
    /\ \E x \in table : x.PK # last.user_id

\* C9: a call of find_conversation_by_user_id ends, and issues at most
\* MAX_QUERY_COUNT page queries, whatever the number of pages of the user.
C9_AtMostFiveQueries ==
    /\ Called("find_conversation_by_user_id") => Len(last.reqs) <= MAX_QUERY_COUNT
    /\ \A u \in Users, store \in Stores :
          /\ find_conversation_by_user_id(table, u, store) # {}
          /\ \A r \in find_conversation_by_user_id(table, u, store) :
                r.queries <= MAX_QUERY_COUNT

\* A call on a user whose conversations span more than MAX_QUERY_COUNT pages.
C9_Witness ==
    /\ Called("find_conversation_by_user_id")
    /\ Cardinality(ConversationRecords(table, last.user_id))
         > MAX_QUERY_COUNT * last.store.pageSize
    /\ Len(last.reqs) >= 2
    /\ Len(last.reqs) <= MAX_QUERY_COUNT

IsStrictPrefix(a, b) == Len(a) < Len(b) /\ SubSeq(b, 1, Len(a)) = a

\* The conversation ids of the user in descending order of sort key.
FullListing(tbl, user_id) ==
    [i \in 1..Cardinality(ConversationRecords(tbl, user_id)) |->
        decompose_conv_id(SortDescending(ConversationRecords(tbl, user_id))[i].SK).id]

\* C10: when the conversations of the user span more than MAX_QUERY_COUNT
\* pages, find_conversation_by_user_id returns without raising, what it
\* returns is a strict prefix of the user's listing in descending order of
\* sort key, and it logs a warning.
C10_TruncatedListing ==
    (/\ Called("find_conversation_by_user_id")
     /\ Cardinality(ConversationRecords(table, last.user_id))
          > MAX_QUERY_COUNT * last.store.pageSize)
        => /\ last.kind = "ok"
           /\ IsStrictPrefix([i \in DOMAIN last.ret |-> last.ret[i].id],
                             FullListing(table, last.user_id))
           /\ last.log # <<>>

\* The listing has a summary for every conversation item of the user.
ListsEvery(ret, tbl, user_id) ==
    /\ Len(ret) = Cardinality(ConversationRecords(tbl, user_id))
    /\ \A x \in ConversationRecords(tbl, user_id) :
          \E i \in DOMAIN ret :
              /\ x.SK = compose_conv_id(user_id, ret[i].id)
              /\ x.Title = ret[i].title
              /\ x.CreateTime = decimal(ret[i].create_time)
              /\ x.BotId = ret[i].bot_id

\* C11: when the conversations of the user span between 2 and
\* MAX_QUERY_COUNT pages, find_conversation_by_user_id returns without
\* raising, with one summary for every conversation item of the user.
C11_MultiPageListing ==
    (/\ Called("find_conversation_by_user_id")
     /\ Cardinality(ConversationRecords(table, last.user_id)) > last.store.pageSize
     /\ Cardinality(ConversationRecords(table, last.user_id))
          <= MAX_QUERY_COUNT * last.store.pageSize)
        => /\ last.kind = "ok"
           /\ ListsEvery(last.ret, table, last.user_id)

\* C12: delete_conversation_by_user_id(u) raises RecordNotFoundError and
\* changes nothing when u has no conversation item; when the conversations of
\* u are within the listing cap and no delete fails, it leaves no conversation
\* item of u and changes nothing else; when they exceed the cap, some remain.
C12_DeleteByUser ==
    [][Calls("delete_conversation_by_user_id")
        => /\ ConversationRecords(table, last'.user_id) = {}
                => last'.kind = "RecordNotFoundError" /\ table' = table
           /\ (/\ ConversationRecords(table, last'.user_id) # {}
               /\ Cardinality(ConversationRecords(table, last'.user_id))
                    <= MAX_QUERY_COUNT * last'.store.pageSize
               /\ last'.kind # "WriteFailedError")
                => /\ last'.kind = "ok"
                   /\ ConversationRecords(table', last'.user_id) = {}
                   /\ table' = table \ ConversationRecords(table, last'.user_id)
           /\ Cardinality(ConversationRecords(table, last'.user_id))
                > MAX_QUERY_COUNT * last'.store.pageSize
                => ConversationRecords(table', last'.user_id) # {}]_vars

\* C13: the CreateTime of a conversation item never changes while the item
\* exists: no call, a later store_conversation of the same conversation
\* included, leaves the item with another CreateTime.
C13_CreateTimeImmutable ==
    [][\A u \in Users, i \in ConvIds :
          \A x \in ConversationRecord(table, u, i), y \in ConversationRecord(table', u, i) :
              (Has(x, {"CreateTime"}) /\ Has(y, {"CreateTime"}))
                  => y.CreateTime = x.CreateTime]_vars

(***************************************************************************)
(* Identifiers that contain "#".  The repository functions take any string *)
(* as user_id and conversation_id; the identifiers below contain neither   *)
(* "#CONV#" nor "#BOT#", yet two of the four (user, conversation) pairs    *)
(* compose to the same sort key.                                           *)
(***************************************************************************)
Contains(s, marker) == \E i \in 1..Len(s) : BeginsWith(SubSeq(s, i, Len(s)), marker)

ValidIdentifier(s) == ~Contains(s, ConvMarker) /\ ~Contains(s, BotMarker)

KeyUsers == {<<"u">>, <<"u", "#", "C", "O", "N", "V">>}

KeyConvIds == {<<"c">>, <<"C", "O", "N", "V", "#", "c">>}

KeyConversations ==
    {Conversation(id, "t1", Float(1, 1), Single, "m1", bot_id) :
        id \in KeyConvIds, bot_id \in {None, Some(Bot1)}}

KeysInit ==
    /\ table = {}
    /\ clock = 0
    /\ last = NoCall

KeysStore ==
    /\ Idle
    /\ \E user_id \in KeyUsers, conversation \in KeyConversations :
        /\ ValidIdentifier(user_id) /\ ValidIdentifier(conversation.id)
        /\ \E r \in store_conversation(table, user_id, conversation, clock, 0) :
               /\ table' = r.table
               /\ last' = [op |-> "store_conversation", user_id |-> user_id,
                           conversation |-> conversation, started |-> clock,
                           failAt |-> 0, kind |-> r.kind, reqs |-> r.reqs, log |-> <<>>]
    /\ UNCHANGED clock

KeysFindById ==
    /\ Idle
    /\ \E user_id \in KeyUsers, conversation_id \in KeyConvIds :
        /\ ValidIdentifier(user_id) /\ ValidIdentifier(conversation_id)
        /\ \E r \in find_conversation_by_id(table, user_id, conversation_id) :
            last' = [op |-> "find_conversation_by_id", user_id |-> user_id,
                     conversation_id |-> conversation_id, kind |-> r.kind,
                     reqs |-> <<QueryReq>>, log |-> <<>>]
    /\ UNCHANGED <<table, clock>>

KeysDeleteById ==
    /\ Idle
    /\ \E user_id \in KeyUsers, conversation_id \in KeyConvIds :
        /\ ValidIdentifier(user_id) /\ ValidIdentifier(conversation_id)
        /\ \E r \in delete_conversation_by_id(table, user_id, conversation_id, FALSE) :
            /\ table' = r.table
            /\ last' = [op |-> "delete_conversation_by_id", user_id |-> user_id,
                        conversation_id |-> conversation_id, kind |-> r.kind,
                        reqs |-> r.reqs, log |-> <<>>]
    /\ UNCHANGED clock

KeysDeleteByUserId ==
    /\ Idle
    /\ \E user_id \in KeyUsers, store \in Stores :
        /\ ValidIdentifier(user_id)
        /\ \E r \in delete_conversation_by_user_id(table, user_id, store, 0) :
            /\ table' = r.table
            /\ last' = [op |-> "delete_conversation_by_user_id", user_id |-> user_id,
                        store |-> store, kind |-> r.kind, reqs |-> r.reqs, log |-> <<>>]
    /\ UNCHANGED clock

KeysChangeTitle ==
    /\ Idle
    /\ \E user_id \in KeyUsers, conversation_id \in KeyConvIds :
        /\ ValidIdentifier(user_id) /\ ValidIdentifier(conversation_id)
        /\ \E r \in change_conversation_title(table, user_id, conversation_id, "t2", FALSE) :
            /\ table' = r.table
            /\ last' = [op |-> "change_conversation_title", user_id |-> user_id,
                        conversation_id |-> conversation_id, new_title |-> "t2",
                        kind |-> r.kind, reqs |-> r.reqs, log |-> <<>>]
    /\ UNCHANGED clock

KeysNext ==
    \/ Return
    \/ KeysStore
    \/ KeysFindById
    \/ KeysDeleteById
    \/ KeysDeleteByUserId
    \/ KeysChangeTitle

SpecKeys == KeysInit /\ [][KeysNext]_vars

\* C14: in every call of store_conversation, change_conversation_title,
\* delete_conversation_by_id and delete_conversation_by_user_id, every key
\* the call writes, updates or deletes has the caller's user_id as partition
\* key and a sort key that begins with user_id followed by "#".
C14_KeysOfCaller ==
    (~Idle /\ ~Called("find_conversation_by_id"))
        => \A n \in DOMAIN last.reqs :
              last.reqs[n].api # "Query"
                => \A k \in DOMAIN last.reqs[n].keys :
                      /\ last.reqs[n].keys[k][1] = last.user_id
                      /\ BeginsWith(last.reqs[n].keys[k][2], last.user_id \o <<"#">>)

\* C15: every stored item's sort key begins with its partition key followed
\* by "#", no two items share a sort key, and the index lookup by the sort
\* key of (u, i) matches at most one item, an item of u.
C15_SortKeysUnique ==
    /\ \A x \in table : BeginsWith(x.SK, x.PK \o <<"#">>)
    /\ \A x, y \in table : x.SK = y.SK => x = y
    /\ \A u \in KeyUsers, i \in KeyConvIds :
          /\ Cardinality(query_index(table, compose_conv_id(u, i))) <= 1
          /\ \A x \in query_index(table, compose_conv_id(u, i)) : x.PK = u

IsDelete(r) == r.api = "DeleteItem"

\* The delete requests of a call, in the order issued.
Deletes(reqs) == SelectSeq(reqs, IsDelete)

\* The conversation items of the first n entries of the user's listing.
Listed(tbl, user_id, n) ==
    {x \in ConversationRecords(tbl, user_id) :
        \E j \in 1..n : x.SK = compose_conv_id(user_id, FullListing(tbl, user_id)[j])}

\* C18: when the k-th delete of delete_conversation_by_user_id fails, the
\* call raises the store's error, the k-1 conversations listed before it are
\* deleted, the k-th and the later ones are still stored, and the failed
\* delete is the last request of the call.
C18_DeleteByUserNotAtomic ==
    [][(Calls("delete_conversation_by_user_id") /\ last'.kind = "WriteFailedError")
        => /\ Deletes(last'.reqs) # <<>>
           /\ Len(Deletes(last'.reqs)) <= Len(FullListing(table, last'.user_id))
           /\ \A n \in DOMAIN Deletes(last'.reqs) :
                Deletes(last'.reqs)[n].keys
                  = << <<last'.user_id,
                         compose_conv_id(last'.user_id, FullListing(table, last'.user_id)[n])>> >>
           /\ IsDelete(last'.reqs[Len(last'.reqs)])
           /\ table' = table \ Listed(table, last'.user_id, Len(Deletes(last'.reqs)) - 1)]_vars

\* The second of two deletes failed: one conversation of the user is gone,
\* the one whose delete failed is still stored.
C18_Witness ==
    /\ Called("delete_conversation_by_user_id")
    /\ last.kind = "WriteFailedError"
    /\ Len(Deletes(last.reqs)) = 2
    /\ Cardinality(ConversationRecords(table, last.user_id)) = 1
    /\ \E x \in ConversationRecords(table, last.user_id) :
          Deletes(last.reqs)[2].keys = << KeyOf(x) >>
    /\ \A x \in ConversationRecords(table, last.user_id) :
          Deletes(last.reqs)[1].keys # << KeyOf(x) >>

\* C20: a call of find_conversation_by_user_id logs the "Query count
\* exceeded" warning exactly when the list it returns omits a conversation
\* item of the user: a call that logs no warning returns a summary of every
\* conversation item of the user.
C20_WarningExact ==
    Called("find_conversation_by_user_id")
        => /\ last.log # <<>>
                => Len(last.ret) < Cardinality(ConversationRecords(table, last.user_id))
           /\ last.log = <<>>
                => last.kind = "ok" /\ ListsEvery(last.ret, table, last.user_id)

(***************************************************************************)
(* Concurrent calls.  Each process makes one call; a call is a sequence of *)
(* steps, one per request it sends to the store, and the steps of the two  *)
(* calls interleave.  last.calls[p] is the call of process p: its name and *)
(* arguments, its position (pc) and the local variables it holds between   *)
(* two requests.                                                           *)
(***************************************************************************)
Procs == {1, 2}

ConcUser == <<"u", "1">>

ConcConversations == ConversationsOf(<<"c", "1">>)

NotCalled == [op |-> "none", pc |-> "idle"]

ConcInit ==
    /\ \E stored \in SUBSET {Conversation(<<"c", "1">>, "t1", Float(3, 1), Tree3, "m3", None),
                             Conversation(<<"c", "2">>, "t1", Float(1, 2), Tree3, "m2", None)} :
          table = Stored({}, ConcUser, stored)
    /\ clock = 0
    /\ last = [op |-> "concurrent", kind |-> "ok", reqs |-> <<>>, log |-> <<>>,
               calls |-> [p \in Procs |-> NotCalled]]

\* store_conversation up to line 131: transact_items is built, the clock read.
ConcBuildStore ==
    /\ \E p \in Procs, conversation \in ConcConversations :
        /\ last.calls[p].pc = "idle"
        /\ last' = [last EXCEPT !.calls[p] =
                      [op |-> "store_conversation", pc |-> "built", user_id |-> ConcUser,
                       conversation |-> conversation,
                       items |-> transact_items(ConcUser, conversation, clock)]]
    /\ UNCHANGED <<table, clock>>

\* store_conversation, line 133: the transaction commits or the store
\* rejects it (a conflict with the other transaction, throttling).
ConcCommitStore ==
    /\ \E p \in Procs, failAt \in 0..1 :
        /\ last.calls[p].op = "store_conversation"
        /\ last.calls[p].pc = "built"
        /\ \E r \in {transact_write_items(table, last.calls[p].items, failAt)} :
            /\ table' = r.table
            /\ last' = [last EXCEPT !.calls[p] =
                          [op |-> "store_conversation", pc |-> "done", user_id |-> ConcUser,
                           conversation |-> last.calls[p].conversation, kind |-> r.kind]]
    /\ UNCHANGED clock

\* change_conversation_title (lines 280-291) and delete_conversation_by_id
\* (lines 236-247): the query on SKIndex, and the key taken from its result.
ConcQueryIndex ==
    /\ \E p \in Procs, conversation_id \in ConvIds,
          op \in {"change_conversation_title", "delete_conversation_by_id"} :
        /\ last.calls[p].pc = "idle"
        /\ \/ /\ query_index(table, compose_conv_id(ConcUser, conversation_id)) = {}
              /\ last' = [last EXCEPT !.calls[p] =
                            [op |-> op, pc |-> "done", user_id |-> ConcUser,
                             conversation_id |-> conversation_id,
                             kind |-> "RecordNotFoundError"]]
           \/ \E item \in query_index(table, compose_conv_id(ConcUser, conversation_id)) :
                last' = [last EXCEPT !.calls[p] =
                            [op |-> op, pc |-> "found", user_id |-> ConcUser,
                             conversation_id |-> conversation_id,
                             key |-> <<item.PK, compose_conv_id(item.PK, conversation_id)>>]]
    /\ UNCHANGED <<table, clock>>

\* change_conversation_title, lines 294-302.
ConcUpdateTitle ==
    /\ \E p \in Procs, new_title \in Titles :
        /\ last.calls[p].op = "change_conversation_title"
        /\ last.calls[p].pc = "found"
        /\ table' = update_item(table, last.calls[p].key, "Title", new_title)
        /\ last' = [last EXCEPT !.calls[p] =
                      [op |-> "change_conversation_title", pc |-> "done",
                       user_id |-> ConcUser,
                       conversation_id |-> last.calls[p].conversation_id,
                       new_title |-> new_title, kind |-> "ok"]]
    /\ UNCHANGED clock

\* delete_conversation_by_id, line 248.
ConcDeleteFound ==
    /\ \E p \in Procs :
        /\ last.calls[p].op = "delete_conversation_by_id"
        /\ last.calls[p].pc = "found"
        /\ table' = delete_item(table, last.calls[p].key)
        /\ last' = [last EXCEPT !.calls[p] =
                      [op |-> "delete_conversation_by_id", pc |-> "done",
                       user_id |-> ConcUser,
                       conversation_id |-> last.calls[p].conversation_id, kind |-> "ok"]]
    /\ UNCHANGED clock

\* delete_conversation_by_user_id, lines 257-258 and 270-271: the listing.
ConcListForDelete ==
    /\ \E p \in Procs, store \in Stores :
        /\ last.calls[p].pc = "idle"
        /\ \E found \in find_conversation_by_user_id(table, ConcUser, store) :
            last' = [last EXCEPT !.calls[p] =
                IF found.kind # "ok"
                THEN [op |-> "delete_conversation_by_user_id", pc |-> "done",
                      user_id |-> ConcUser, kind |-> found.kind]
                ELSE IF found.ret = <<>>
                THEN [op |-> "delete_conversation_by_user_id", pc |-> "done",
                      user_id |-> ConcUser, kind |-> "RecordNotFoundError"]
                ELSE [op |-> "delete_conversation_by_user_id", pc |-> "deleting",
                      user_id |-> ConcUser, conversations |-> found.ret]]
    /\ UNCHANGED <<table, clock>>

\* delete_conversation_by_user_id, lines 261-268: one turn of the for loop.
ConcDeleteNext ==
    /\ \E p \in Procs :
        /\ last.calls[p].op = "delete_conversation_by_user_id"
        /\ last.calls[p].pc = "deleting"
        /\ table' = delete_item(table,
                        <<ConcUser,
                          compose_conv_id(ConcUser, Head(last.calls[p].conversations).id)>>)
        /\ last' = [last EXCEPT !.calls[p] =
                      IF Tail(last.calls[p].conversations) = <<>>
                      THEN [op |-> "delete_conversation_by_user_id", pc |-> "done",
                            user_id |-> ConcUser, kind |-> "ok"]
                      ELSE [op |-> "delete_conversation_by_user_id", pc |-> "deleting",
                            user_id |-> ConcUser,
                            conversations |-> Tail(last.calls[p].conversations)]]
    /\ UNCHANGED clock

ConcNext ==
    \/ ConcBuildStore
    \/ ConcCommitStore
    \/ ConcQueryIndex
    \/ ConcUpdateTitle
    \/ ConcDeleteFound
    \/ ConcListForDelete
    \/ ConcDeleteNext

SpecConc == ConcInit /\ [][ConcNext]_vars

\* C17: once two concurrent store_conversation calls for the same user and
\* conversation id have both committed, the stored conversation item is the
\* item of one of the two calls, whole, and find_conversation_by_id returns
\* that call's conversation.
C17_LastWriterWins ==
    (/\ \A p \in Procs : /\ last.calls[p].op = "store_conversation"
                         /\ last.calls[p].pc = "done"
                         /\ last.calls[p].kind = "ok"
     /\ last.calls[1].conversation.id = last.calls[2].conversation.id)
        => \E p \in Procs :
              /\ ConversationRecord(table, ConcUser, last.calls[p].conversation.id)
                   = {ConversationItem(ConcUser, last.calls[p].conversation)}
              /\ \A r \in find_conversation_by_id(table, ConcUser,
                                                  last.calls[p].conversation.id) :
                    r.kind = "ok" /\ SameConversation(r.ret, last.calls[p].conversation)

\* Both calls committed conversations that differ in every field, over an
\* item stored before; the call of process 1 committed last.
C17_Witness ==
    /\ \A p \in Procs : /\ last.calls[p].op = "store_conversation"
                        /\ last.calls[p].pc = "done"
                        /\ last.calls[p].kind = "ok"
    /\ last.calls[1].conversation.title # last.calls[2].conversation.title
    /\ last.calls[1].conversation.create_time # last.calls[2].conversation.create_time
    /\ last.calls[1].conversation.bot_id # last.calls[2].conversation.bot_id
    /\ ConversationItem(ConcUser, last.calls[1].conversation) \in table
    /\ BotUsageRecord(table, ConcUser, Bot1) # {}

\* C19: under every interleaving of change_conversation_title with a
\* concurrent delete of the same conversation, every item stored under a CONV
\* sort key carries Title, CreateTime, MessageMap, LastMessageId and BotId,
\* and find_conversation_by_id either returns a conversation or raises
\* RecordNotFoundError.
C19_RenameNeverCreates ==
    /\ \A x \in table :
          BeginsWith(x.SK, x.PK \o ConvMarker) => Has(x, ConversationAttrs)
    /\ \A i \in ConvIds :
          \A r \in find_conversation_by_id(table, ConcUser, i) :
              r.kind \in {"ok", "RecordNotFoundError"}

====
